---- MODULE Spec2Model ----
(***************************************************************************)
(* Multi-region dashboard: the flag store (app/feature_flags.py), the      *)
(* database operations (app/database.py) and the HTMX endpoints            *)
(* (app/routers/api.py), as one state machine.                             *)
(*                                                                         *)
(* Units: a raw elapsed time is an integer number of thousandths of a      *)
(* millisecond; a value rounded by round(x, 2) is an integer number of     *)
(* hundredths of a millisecond.                                            *)
(*                                                                         *)
(* One request is in flight at a time; every await of the code is a step   *)
(* boundary, and a flag toggle may run between any two steps.              *)
(***************************************************************************)
EXTENDS Integers, Sequences, FiniteSets, TLC

VARIABLES
    DEMO_MODE,   \* feature_flags.DEMO_MODE, fixed at import
    dsn,         \* the regions whose env_key holds a connection string
    phase,       \* "startup" | "running" | "closed" (main.lifespan)
    pools,       \* db_manager._pools: the regions that have a pool
    held,        \* connections acquired and not yet released, per region
    demo_flags,  \* feature_flags._demo_flags
    req          \* the request in flight (or the last one answered)

vars == <<DEMO_MODE, dsn, phase, pools, held, demo_flags, req>>

----------------------------------------------------------------------------
(* Bounds of the model *)

\* run_load_test's `concurrent` is drawn from 1..MaxConcurrent
MaxConcurrent == 2

----------------------------------------------------------------------------
(* app/config.py *)

REGIONS == <<"us-east", "eu-west", "asia-pacific">>

RegionIds == {REGIONS[i] : i \in 1..Len(REGIONS)}

\* a region identifier that is no key of REGIONS
UnknownRegion == "mars"

RequestIds == RegionIds \cup {UnknownRegion}

----------------------------------------------------------------------------
(* Values *)

None == [tag |-> "None"]

\* round(x, 2) of a value given in thousandths, in hundredths (half to even)
Round2(x) ==
    LET q == x \div 10
        r == x % 10
    IN  IF r > 5 \/ (r = 5 /\ q % 2 = 1) THEN q + 1 ELSE q

\* random.uniform(lo, hi) in thousandths: both ends and a value next to each
UniformSamples(lo, hi) == {lo, hi - 4}

\* elapsed wall time of a real query, in thousandths of a millisecond
RawLatencies == {31004, 118996}

\* str(e) of the exception a failed acquire or query raises
ExcMessages == {"", "connection refused"}

ConnectionResult(success, latency_ms, server_port, database, pg_version, error) ==
    [tag |-> "ConnectionResult", success |-> success, latency_ms |-> latency_ms,
     server_port |-> server_port, database |-> database, pg_version |-> pg_version,
     error |-> error]

HtmlResponse(class, text) == [tag |-> "html", class |-> class, text |-> text]

TemplateResponse(name, result) == [tag |-> "template", name |-> name, result |-> result]

----------------------------------------------------------------------------
(* app/feature_flags.py *)

\* a flag value: a Python bool or a Python int
BoolVal(b) == [t |-> "bool", v |-> b]

IntVal(n) == [t |-> "int", v |-> n]

\* isinstance(x, bool)
IsBool(x) == x.t = "bool"

\* the truth value Python gives x in `if not x`
Truthy(x) == IF x.t = "bool" THEN x.v ELSE x.v /= 0

\* init_launchdarkly is never called by main.lifespan: the client stays None
ld_client == FALSE

\* what the flag service may answer; it is asked only when there is a client
LdAnswers == IF ld_client THEN BOOLEAN ELSE {TRUE}

InitialDemoFlags ==
    [k \in {"region-us-east-enabled", "region-eu-west-enabled",
            "region-asia-pacific-enabled", "enable-health-checks",
            "enable-load-testing", "dashboard-refresh-seconds"} |->
        IF k = "dashboard-refresh-seconds" THEN IntVal(30) ELSE BoolVal(TRUE)]

FlagKeys == DOMAIN InitialDemoFlags

\* a key the store does not hold
UnknownFlag == "enable-dark-mode"

\* dict.get(key, default)
Get(d, key, default) == IF key \in DOMAIN d THEN d[key] ELSE default

\* feature.replace('_', '-'), on the feature names the endpoints pass
ReplaceUnderscores(feature) ==
    CASE feature = "health_checks" -> "health-checks"
      [] feature = "load_testing" -> "load-testing"
      [] OTHER -> feature

\* is_region_enabled building a key the store does not hold
is_region_enabled_wrong_key(flags, region_id, ld) ==
    LET flag_key == "region_" \o region_id \o "_enabled"
    IN  IF DEMO_MODE \/ ~ld_client THEN Get(flags, flag_key, BoolVal(TRUE)) ELSE ld

\* `ld` is what the flag service would answer; it is read only with a client
is_region_enabled(flags, region_id, ld) ==
    LET flag_key == "region-" \o region_id \o "-enabled"
    IN  IF DEMO_MODE \/ ~ld_client THEN Get(flags, flag_key, BoolVal(TRUE)) ELSE ld

is_feature_enabled(flags, feature, ld) ==
    LET flag_key == "enable-" \o ReplaceUnderscores(feature)
    IN  IF DEMO_MODE \/ ~ld_client THEN Get(flags, flag_key, BoolVal(TRUE)) ELSE ld

\* toggle_demo_flag without its isinstance check: `not 30` is stored
toggle_demo_flag_any_type(flags, flag_key) ==
    IF flag_key \in DOMAIN flags
    THEN [flags |-> [flags EXCEPT ![flag_key] = BoolVal(~Truthy(flags[flag_key]))],
          ret |-> TRUE]
    ELSE [flags |-> flags, ret |-> FALSE]

\* toggle_demo_flag switching the flag on instead of negating it
toggle_demo_flag_set_true(flags, flag_key) ==
    IF flag_key \in DOMAIN flags /\ IsBool(flags[flag_key])
    THEN [flags |-> [flags EXCEPT ![flag_key] = BoolVal(TRUE)], ret |-> TRUE]
    ELSE [flags |-> flags, ret |-> FALSE]

\* the mapping after toggle_demo_flag(flag_key), and the value it returns
toggle_demo_flag(flags, flag_key) ==
    IF flag_key \in DOMAIN flags /\ IsBool(flags[flag_key])
    THEN [flags |-> [flags EXCEPT ![flag_key] = BoolVal(~flags[flag_key].v)],
          ret |-> TRUE]
    ELSE [flags |-> flags, ret |-> FALSE]

----------------------------------------------------------------------------
(* app/routers/api.py: the demo simulators *)

BaseLatency(region_id) ==
    CASE region_id = "us-east" -> 25
      [] region_id = "eu-west" -> 120
      [] region_id = "asia-pacific" -> 180
      [] OTHER -> 100

\* the draws of random.uniform(-10, 20) in simulate_connection
ConnectionJitter == UniformSamples(-10000, 20000)

\* `u` is the draw of random.uniform(-10, 20); server_ip and backend_pid,
\* random and read by no code, are left out of the record
simulate_connection(region_id, u) ==
    ConnectionResult(TRUE, Round2(BaseLatency(region_id) * 1000 + u),
                     6543, "defaultdb", "PostgreSQL 16.2", "")

HealthMetrics(cache_hit_ratio, active_connections, max_connections, db_size_mb) ==
    [tag |-> "HealthMetrics", cache_hit_ratio |-> cache_hit_ratio,
     active_connections |-> active_connections,
     max_connections |-> max_connections, db_size_mb |-> db_size_mb]

\* the three draws of simulate_health
HealthDraws ==
    {<<0, 5, 100000>>, <<4500, 25, 500000>>}

simulate_health(d) == HealthMetrics(Round2(95000 + d[1]), d[2], 100, Round2(d[3]))

LoadTestResult(concurrent, min_ms, max_ms, avg_ms, results) ==
    [tag |-> "LoadTestResult", concurrent |-> concurrent, min_ms |-> min_ms,
     max_ms |-> max_ms, avg_ms |-> avg_ms, results |-> results]

RECURSIVE SeqSum(_)
SeqSum(s) == IF s = <<>> THEN 0 ELSE Head(s) + SeqSum(Tail(s))

SeqMin(s) == CHOOSE x \in {s[i] : i \in DOMAIN s} : \A j \in DOMAIN s : x <= s[j]

SeqMax(s) == CHOOSE x \in {s[i] : i \in DOMAIN s} : \A j \in DOMAIN s : x >= s[j]

\* round(num / den, 2) in hundredths, num / den being a value in hundredths
RoundDiv(num, den) ==
    LET q == num \div den
        r == num % den
    IN  IF 2 * r > den \/ (2 * r = den /\ q % 2 = 1) THEN q + 1 ELSE q

\* the draws of random.uniform(-5, 30) in simulate_load_test
LoadJitter == UniformSamples(-5000, 30000)

\* `u[i]` is the draw of call i (1-based here, range(concurrent) in the code)
simulate_load_test(region_id, concurrent, u) ==
    LET results == [i \in 1..concurrent |->
                      Round2(BaseLatency(region_id) * 1000 + u[i] + (i - 1) * 1500)]
    IN  LoadTestResult(concurrent, SeqMin(results), SeqMax(results),
                       RoundDiv(SeqSum(results), Len(results)), results)

----------------------------------------------------------------------------
(* app/database.py *)

\* one `async with pool.acquire() as conn` block and the queries in it:
\* st is the await it is suspended at ("acquire", "query", "release"), or
\* how it ended ("ok", "exc"); fin is how it will end once released
NewTask == [st |-> "acquire", fin |-> "", q |-> 0, vals |-> <<>>, raw |-> 0, err |-> ""]

Terminal(task) == task.st \in {"ok", "exc"}

\* the row the fetchrow of test_connection returns
ServerRow == [server_port |-> 5432, database |-> "defaultdb", pg_version |-> "PostgreSQL 16.2"]

\* the values the three fetchrows of get_health_metrics return:
\* cache_hit_ratio, <<active_connections, max_connections>>, db_size_mb
HealthRows == <<<<9912>>, <<7, 100>>, <<250004>>>>

\* test_connection on a region that has no pool
no_pool_result == ConnectionResult(FALSE, 0, 0, "", "", "No connection pool available")

\* test_connection without its except clause: the exception reaches the caller
test_connection_result_uncaught(task) ==
    IF task.st = "ok"
    THEN ConnectionResult(TRUE, Round2(task.raw), ServerRow.server_port,
                          ServerRow.database, ServerRow.pg_version, "")
    ELSE [tag |-> "Exception", success |-> FALSE, latency_ms |-> 0, error |-> task.err]

\* what test_connection returns once its block has ended
test_connection_result(task) ==
    IF task.st = "ok"
    THEN ConnectionResult(TRUE, Round2(task.raw), ServerRow.server_port,
                          ServerRow.database, ServerRow.pg_version, "")
    ELSE ConnectionResult(FALSE, 0, 0, "", "", task.err)

\* get_health_metrics catching each query's failure and keeping the defaults
get_health_metrics_result_partial(task) ==
    LET v == task.vals \o <<0, 0, 0, 0>>
    IN  IF task.q >= 1 THEN HealthMetrics(v[1], v[2], v[3], Round2(v[4])) ELSE None

\* what get_health_metrics returns once its block has ended
get_health_metrics_result(task) ==
    IF task.st = "ok"
    THEN HealthMetrics(task.vals[1], task.vals[2], task.vals[3], Round2(task.vals[4]))
    ELSE None

\* valid_results keeping every entry of gather's list, a failed call as 0
valid_results_unfiltered(tasks) == [i \in 1..Len(tasks) |-> tasks[i].raw]

\* [r for r in results if isinstance(r, (int, float))]
valid_results(tasks) ==
    LET ok == SelectSeq(tasks, LAMBDA t : t.st = "ok")
    IN  [i \in 1..Len(ok) |-> ok[i].raw]

\* what run_load_test returns once gather has returned
run_load_test_result(tasks, concurrent) ==
    LET valid == valid_results(tasks)
    IN  IF valid = <<>>
        THEN None
        ELSE LoadTestResult(concurrent, Round2(SeqMin(valid)), Round2(SeqMax(valid)),
                            RoundDiv(SeqSum(valid), Len(valid) * 10),
                            [i \in 1..Len(valid) |-> Round2(valid[i])])

----------------------------------------------------------------------------
(* app/routers/api.py: the endpoints *)

\* the key of sorted() without the `if x[1].success else float('inf')`
sort_key_latency_only(item) == [inf |-> FALSE, v |-> item[2].latency_ms]

\* the key of sorted(): latency_ms if success else float('inf')
sort_key(item) == [inf |-> ~item[2].success, v |-> item[2].latency_ms]

KeyLess(a, b) == IF a.inf THEN FALSE ELSE (b.inf \/ a.v < b.v)

\* the place a stable sort gives x among the sorted items before it
RECURSIVE Insert(_, _)
Insert(sorted, x) ==
    IF sorted = <<>> THEN <<x>>
    ELSE IF KeyLess(sort_key(x), sort_key(Head(sorted)))
         THEN <<x>> \o sorted
         ELSE <<Head(sorted)>> \o Insert(Tail(sorted), x)

\* sorted(results.items(), key=...)
RECURSIVE sorted_results(_)
sorted_results(items) ==
    IF items = <<>> THEN <<>>
    ELSE Insert(sorted_results(SubSeq(items, 1, Len(items) - 1)), items[Len(items)])

IdleReq ==
    [kind |-> "none", rid |-> "", pc |-> "idle", enabled |-> <<>>, results |-> <<>>,
     tasks |-> <<>>, concurrent |-> 0, ret |-> None, response |-> None,
     calls |-> {}, seen |-> <<>>]

NewReq(kind, rid) == [IdleReq EXCEPT !.kind = kind, !.rid = rid]

Answer(rq, response) == [rq EXCEPT !.pc = "done", !.response = response]

Called(rq, fn, region_id) == [rq EXCEPT !.calls = @ \cup {<<fn, region_id>>}]

\* the region whose pool the request's tasks use
DbRegion(rq) ==
    IF rq.kind = "test_all" THEN rq.enabled[Len(rq.results) + 1] ELSE rq.rid

\* the simulator chosen by the missing connection string alone
UseSimulator_no_dsn_only(region_id) == region_id \notin dsn

\* the simulator chosen by demo mode alone
UseSimulator_demo_only(region_id) == DEMO_MODE

\* `if DEMO_MODE or not REGIONS[region_id].dsn`
UseSimulator(region_id) == DEMO_MODE \/ region_id \notin dsn

unknown_region == HtmlResponse("text-red-400", "Unknown region")

connection_response(rq, result) ==
    Answer([rq EXCEPT !.ret = result],
           TemplateResponse("partials/connection_result.html", result))

\* test_region from its sleep to its next await, or to its answer
test_region_body(rq, u) ==
    IF UseSimulator(rq.rid)
    THEN connection_response(Called(rq, "simulate_connection", rq.rid),
                             simulate_connection(rq.rid, u))
    ELSE LET c == Called(rq, "test_connection", rq.rid)
         IN  IF rq.rid \notin pools
             THEN connection_response(c, no_pool_result)
             ELSE [c EXCEPT !.pc = "db", !.tasks = <<NewTask>>]

\* the loop of test_all_regions from enabled[i] to its next await, or to the
\* answer; u[r] is the draw of the simulator for region r
RECURSIVE test_all_loop(_, _, _)
test_all_loop(rq, i, u) ==
    IF i > Len(rq.enabled)
    THEN Answer(rq, TemplateResponse("partials/all_results.html",
                                     sorted_results(rq.results)))
    ELSE LET r == rq.enabled[i]
         IN  IF UseSimulator(r)
             THEN test_all_loop(
                    [Called(rq, "simulate_connection", r) EXCEPT
                        !.results = Append(@, <<r, simulate_connection(r, u[r])>>)],
                    i + 1, u)
             ELSE LET c == Called(rq, "test_connection", r)
                  IN  IF r \notin pools
                      THEN test_all_loop(
                             [c EXCEPT !.results = Append(@, <<r, no_pool_result>>)],
                             i + 1, u)
                      ELSE [c EXCEPT !.pc = "db", !.tasks = <<NewTask>>]

health_response(rq, metrics) ==
    Answer([rq EXCEPT !.ret = metrics],
           IF metrics = None
           THEN HtmlResponse("text-red-400", "Failed to fetch metrics")
           ELSE TemplateResponse("partials/health_metrics.html", metrics))

load_response(rq, result) ==
    Answer([rq EXCEPT !.ret = result],
           IF result = None
           THEN HtmlResponse("text-red-400", "Load test failed")
           ELSE TemplateResponse("partials/load_test_result.html", result))

\* the request once a task has ended: its caller resumes when no task is left
Continue(rq, u) ==
    IF \E i \in DOMAIN rq.tasks : ~Terminal(rq.tasks[i]) THEN rq
    ELSE CASE rq.kind = "test" ->
                connection_response(rq, test_connection_result(rq.tasks[1]))
           [] rq.kind = "test_all" ->
                test_all_loop(
                    [rq EXCEPT !.results =
                        Append(@, <<DbRegion(rq), test_connection_result(rq.tasks[1])>>),
                               !.tasks = <<>>],
                    Len(rq.results) + 2, u)
           [] rq.kind = "health" ->
                health_response(rq, get_health_metrics_result(rq.tasks[1]))
           [] rq.kind = "load" ->
                load_response(rq, run_load_test_result(rq.tasks, rq.concurrent))

----------------------------------------------------------------------------
(* The state machine *)

Init ==
    /\ DEMO_MODE \in BOOLEAN
    /\ dsn \in SUBSET RegionIds
    /\ phase = "startup"
    /\ pools = {}
    /\ held = [r \in RegionIds |-> 0]
    /\ demo_flags = InitialDemoFlags
    /\ req = IdleReq

\* a new request is served once the previous one is answered
CanServe == phase = "running" /\ req.pc \in {"idle", "done"}

\* the flags a request reads, as they are when it reads them
Snapshot(keys) == [k \in keys |-> demo_flags[k]]

RegionFlag(region_id) == "region-" \o region_id \o "-enabled"

\* DatabaseManager.initialize: `created` are the regions whose create_pool succeeds
initialize ==
    /\ phase = "startup"
    /\ \E ASYNCPG_AVAILABLE \in BOOLEAN, created \in SUBSET dsn :
          pools' = IF ASYNCPG_AVAILABLE THEN created ELSE {}
    /\ phase' = "running"
    /\ UNCHANGED <<DEMO_MODE, dsn, held, demo_flags, req>>

\* POST /flags/{flag_key}/toggle; it runs between the steps of a request in
\* flight, and is itself the last request answered when none is: `seen` is
\* then the store before it, `ret` what toggle_demo_flag returned
toggle_flag(flag_key) ==
    /\ phase = "running"
    /\ LET t == toggle_demo_flag(demo_flags, flag_key)
           rq == [NewReq("toggle", flag_key) EXCEPT
                    !.seen = demo_flags,
                    !.ret = IF DEMO_MODE THEN BoolVal(t.ret) ELSE None]
       IN  /\ demo_flags' = IF ~DEMO_MODE THEN demo_flags ELSE t.flags
           /\ req' = IF req.pc \notin {"idle", "done"} THEN req
                     ELSE IF ~DEMO_MODE
                          THEN Answer(rq, HtmlResponse("text-red-400", "Not in demo mode"))
                          ELSE Answer(rq, TemplateResponse("partials/flag_panel.html",
                                                           t.flags))
    /\ UNCHANGED <<DEMO_MODE, dsn, phase, pools, held>>

\* POST /regions/{region_id}/test, to its first await or its answer
test_region(region_id) ==
    /\ CanServe
    /\ \E ld \in LdAnswers :
          req' = IF region_id \notin RegionIds
                 THEN Answer(NewReq("test", region_id), unknown_region)
                 ELSE LET rq == [NewReq("test", region_id) EXCEPT
                                   !.seen = Snapshot({RegionFlag(region_id)})]
                      IN  IF ~Truthy(is_region_enabled(demo_flags, region_id, BoolVal(ld)))
                          THEN Answer(rq, TemplateResponse(
                                            "partials/region_disabled.html", None))
                          ELSE [rq EXCEPT !.pc = "sleep"]
    /\ UNCHANGED <<DEMO_MODE, dsn, phase, pools, held, demo_flags>>

\* test_region after asyncio.sleep
test_region_resume ==
    /\ req.pc = "sleep" /\ req.kind = "test"
    /\ \E u \in ConnectionJitter : req' = test_region_body(req, u)
    /\ UNCHANGED <<DEMO_MODE, dsn, phase, pools, held, demo_flags>>

\* the fan-out over every region, enabled or not
enabled_regions_unfiltered(flags, ld) == REGIONS

\* [rid for rid in REGIONS if is_region_enabled(rid, user_key)]
enabled_regions(flags, ld) ==
    SelectSeq(REGIONS, LAMBDA r : Truthy(is_region_enabled(flags, r, ld)))

\* POST /regions/test-all, to its first await or its answer
test_all_regions ==
    /\ CanServe
    /\ \E ld \in LdAnswers :
          LET rq == [NewReq("test_all", "") EXCEPT
                       !.seen = Snapshot({RegionFlag(r) : r \in RegionIds}),
                       !.enabled = enabled_regions(demo_flags, BoolVal(ld))]
          IN  req' = IF rq.enabled = <<>>
                     THEN Answer(rq, HtmlResponse("text-amber-400", "No regions enabled"))
                     ELSE [rq EXCEPT !.pc = "sleep"]
    /\ UNCHANGED <<DEMO_MODE, dsn, phase, pools, held, demo_flags>>

\* test_all_regions reading the flags again after its sleep
test_all_regions_resume_reread ==
    /\ req.pc = "sleep" /\ req.kind = "test_all"
    /\ \E u \in [RegionIds -> ConnectionJitter], ld \in LdAnswers :
          req' = test_all_loop(
                   [req EXCEPT !.enabled = enabled_regions(demo_flags, BoolVal(ld))],
                   1, u)
    /\ UNCHANGED <<DEMO_MODE, dsn, phase, pools, held, demo_flags>>

\* test_all_regions after asyncio.sleep
test_all_regions_resume ==
    /\ req.pc = "sleep" /\ req.kind = "test_all"
    /\ \E u \in [RegionIds -> ConnectionJitter] : req' = test_all_loop(req, 1, u)
    /\ UNCHANGED <<DEMO_MODE, dsn, phase, pools, held, demo_flags>>

\* the checks answering a disabled region with the feature's message
rejection_one_message(region_id, feature, disabled_text, ld) ==
    IF region_id \notin RegionIds THEN unknown_region
    ELSE IF ~Truthy(is_feature_enabled(demo_flags, feature, ld))
         THEN HtmlResponse("text-amber-400", disabled_text)
    ELSE IF ~Truthy(is_region_enabled(demo_flags, region_id, ld))
         THEN HtmlResponse("text-amber-400", disabled_text)
    ELSE None

\* the checks with the region's flag read before the feature's
rejection_region_first(region_id, feature, disabled_text, ld) ==
    IF region_id \notin RegionIds THEN unknown_region
    ELSE IF ~Truthy(is_region_enabled(demo_flags, region_id, ld))
         THEN HtmlResponse("text-amber-400", "Region disabled")
    ELSE IF ~Truthy(is_feature_enabled(demo_flags, feature, ld))
         THEN HtmlResponse("text-amber-400", disabled_text)
    ELSE None

\* the checks region_health and load_test share: the answer that rejects the
\* request, or None when it passes
rejection(region_id, feature, disabled_text, ld) ==
    IF region_id \notin RegionIds THEN unknown_region
    ELSE IF ~Truthy(is_feature_enabled(demo_flags, feature, ld))
         THEN HtmlResponse("text-amber-400", disabled_text)
    ELSE IF ~Truthy(is_region_enabled(demo_flags, region_id, ld))
         THEN HtmlResponse("text-amber-400", "Region disabled")
    ELSE None

\* the flags region_health and load_test may read: the feature's, and the
\* region's when the region is known
FeatureSnapshot(region_id, feature) ==
    IF region_id \in RegionIds
    THEN Snapshot({"enable-" \o feature, RegionFlag(region_id)})
    ELSE Snapshot({"enable-" \o feature})

\* POST /regions/{region_id}/health, to its first await or its answer
region_health(region_id) ==
    /\ CanServe
    /\ \E ld \in LdAnswers :
          LET rq == [NewReq("health", region_id) EXCEPT
                       !.seen = FeatureSnapshot(region_id, "health-checks")]
              no == rejection(region_id, "health-checks", "Health checks disabled",
                              BoolVal(ld))
          IN  req' = IF no /= None THEN Answer(rq, no) ELSE [rq EXCEPT !.pc = "sleep"]
    /\ UNCHANGED <<DEMO_MODE, dsn, phase, pools, held, demo_flags>>

\* region_health after asyncio.sleep
region_health_resume ==
    /\ req.pc = "sleep" /\ req.kind = "health"
    /\ \E d \in HealthDraws :
          req' = IF UseSimulator(req.rid)
                 THEN health_response(Called(req, "simulate_health", req.rid),
                                      simulate_health(d))
                 ELSE LET c == Called(req, "get_health_metrics", req.rid)
                      IN  IF req.rid \notin pools
                          THEN health_response(c, None)
                          ELSE [c EXCEPT !.pc = "db", !.tasks = <<NewTask>>]
    /\ UNCHANGED <<DEMO_MODE, dsn, phase, pools, held, demo_flags>>

\* POST /regions/{region_id}/load-test, to its first await or its answer;
\* DEFAULTS["load_test_concurrent"] is 10 in the code, `concurrent` here
load_test(region_id, concurrent) ==
    /\ CanServe
    /\ \E ld \in LdAnswers :
          LET rq == [NewReq("load", region_id) EXCEPT
                       !.seen = FeatureSnapshot(region_id, "load-testing"),
                       !.concurrent = concurrent]
              no == rejection(region_id, "load-testing", "Load testing disabled",
                              BoolVal(ld))
          IN  req' = IF no /= None THEN Answer(rq, no) ELSE [rq EXCEPT !.pc = "sleep"]
    /\ UNCHANGED <<DEMO_MODE, dsn, phase, pools, held, demo_flags>>

\* load_test after asyncio.sleep; gather starts every single_query, and each
\* runs to its pool.acquire
load_test_resume ==
    /\ req.pc = "sleep" /\ req.kind = "load"
    /\ \E u \in [1..req.concurrent -> LoadJitter] :
          req' = IF UseSimulator(req.rid)
                 THEN load_response(Called(req, "simulate_load_test", req.rid),
                                    simulate_load_test(req.rid, req.concurrent, u))
                 ELSE LET c == Called(req, "run_load_test", req.rid)
                      IN  IF req.rid \notin pools
                          THEN load_response(c, None)
                          ELSE [c EXCEPT !.pc = "db",
                                         !.tasks = [i \in 1..req.concurrent |-> NewTask]]
    /\ UNCHANGED <<DEMO_MODE, dsn, phase, pools, held, demo_flags>>

\* str(e) as the request keeps it: gather's exceptions are dropped unread
Kept(rq, msg) == IF rq.kind = "load" THEN "" ELSE msg

\* pool.acquire() of task i returns a connection, or raises
acquire_done(i) ==
    /\ req.pc = "db" /\ i \in DOMAIN req.tasks /\ req.tasks[i].st = "acquire"
    /\ \E ok \in BOOLEAN, msg \in ExcMessages, u \in [RegionIds -> ConnectionJitter] :
          IF ok
          THEN /\ held' = [held EXCEPT ![DbRegion(req)] = @ + 1]
               /\ req' = [req EXCEPT !.tasks[i].st = "query"]
          ELSE /\ held' = held
               /\ req' = Continue([req EXCEPT !.tasks[i].st = "exc",
                                              !.tasks[i].err = Kept(req, msg)], u)
    /\ UNCHANGED <<DEMO_MODE, dsn, phase, pools, demo_flags>>

\* the queries one block issues
Queries(kind) == IF kind = "health" THEN Len(HealthRows) ELSE 1

\* query_done with a connection acquired outside `async with`: a query
\* that raises ends the task with the connection still out of the pool
query_done_leak(i) ==
    /\ req.pc = "db" /\ i \in DOMAIN req.tasks /\ req.tasks[i].st = "query"
    /\ \E ok \in BOOLEAN, msg \in ExcMessages, raw \in RawLatencies :
          LET t == req.tasks[i]
              n == t.q + 1
          IN  req' = [req EXCEPT !.tasks[i] =
                        IF ~ok
                        THEN [t EXCEPT !.st = "exc", !.fin = "exc",
                                       !.err = Kept(req, msg)]
                        ELSE [t EXCEPT
                                !.q = n,
                                !.vals = IF req.kind = "health"
                                         THEN @ \o HealthRows[n] ELSE @,
                                !.raw = IF req.kind = "test" \/ req.kind = "test_all"
                                        THEN raw ELSE @,
                                !.st = IF n = Queries(req.kind) THEN "release" ELSE @,
                                !.fin = IF n = Queries(req.kind) THEN "ok" ELSE @]]
    /\ UNCHANGED <<DEMO_MODE, dsn, phase, pools, held, demo_flags>>

\* the query task i awaits returns, or raises; the block is left when it was
\* the last one or when it raised, and the connection goes back to the pool
query_done(i) ==
    /\ req.pc = "db" /\ i \in DOMAIN req.tasks /\ req.tasks[i].st = "query"
    /\ \E ok \in BOOLEAN, msg \in ExcMessages, raw \in RawLatencies :
          LET t == req.tasks[i]
              n == t.q + 1
          IN  req' = [req EXCEPT !.tasks[i] =
                        IF ~ok
                        THEN [t EXCEPT !.st = "release", !.fin = "exc",
                                       !.err = Kept(req, msg)]
                        ELSE [t EXCEPT
                                !.q = n,
                                !.vals = IF req.kind = "health"
                                         THEN @ \o HealthRows[n] ELSE @,
                                !.raw = IF req.kind = "test" \/ req.kind = "test_all"
                                        THEN raw ELSE @,
                                !.st = IF n = Queries(req.kind) THEN "release" ELSE @,
                                !.fin = IF n = Queries(req.kind) THEN "ok" ELSE @]]
    /\ UNCHANGED <<DEMO_MODE, dsn, phase, pools, held, demo_flags>>

\* the connection of task i is back in the pool; single_query reads the
\* clock after it
release_done(i) ==
    /\ req.pc = "db" /\ i \in DOMAIN req.tasks /\ req.tasks[i].st = "release"
    /\ held' = [held EXCEPT ![DbRegion(req)] = @ - 1]
    /\ \E raw \in RawLatencies, u \in [RegionIds -> ConnectionJitter] :
          LET t == req.tasks[i]
          IN  req' = Continue(
                       [req EXCEPT !.tasks[i] =
                          [t EXCEPT !.st = t.fin,
                                    !.raw = IF req.kind = "load" /\ t.fin = "ok"
                                            THEN raw ELSE @]], u)
    /\ UNCHANGED <<DEMO_MODE, dsn, phase, pools, demo_flags>>

Next ==
    \/ initialize
    \/ \E k \in FlagKeys \cup {UnknownFlag} : toggle_flag(k)
    \/ \E r \in RequestIds : test_region(r)
    \/ test_region_resume
    \/ test_all_regions
    \/ test_all_regions_resume
    \/ \E r \in RequestIds : region_health(r)
    \/ region_health_resume
    \/ \E r \in RequestIds, k \in 1..MaxConcurrent : load_test(r, k)
    \/ load_test_resume
    \/ \E i \in 1..MaxConcurrent : acquire_done(i)
    \/ \E i \in 1..MaxConcurrent : query_done(i)
    \/ \E i \in 1..MaxConcurrent : release_done(i)

Spec == Init /\ [][Next]_vars

----------------------------------------------------------------------------
(* Properties *)

Answered(kind) == req.kind = kind /\ req.pc = "done"

\* the regions a connection test (simulated or real) was invoked for
TestedRegions == {c[2] : c \in {d \in req.calls :
                                   d[1] \in {"simulate_connection", "test_connection"}}}

IsTemplate(name) == req.response.tag = "template" /\ req.response.name = name

\* C1: the list test_all_regions hands to the response holds the collected
\* results, the successful ones first and in non-decreasing latency, and every
\* failed one after every successful one, whatever latency it carries
C1_SortedByLatencyFailedLast ==
    (Answered("test_all") /\ IsTemplate("partials/all_results.html")) =>
        LET s == req.response.result
        IN  /\ Len(s) = Len(req.results)
            /\ {s[i] : i \in DOMAIN s} = {req.results[i] : i \in DOMAIN req.results}
            /\ \A i, j \in DOMAIN s :
                  (i < j /\ s[j][2].success) =>
                      /\ s[i][2].success
                      /\ s[i][2].latency_ms <= s[j][2].latency_ms

\* C1 witness: a failed result, collected first and carrying latency 0, is
\* handed over after two successful ones that were collected out of order
C1_Witness ==
    /\ Answered("test_all") /\ IsTemplate("partials/all_results.html")
    /\ Len(req.results) = 3
    /\ ~req.results[1][2].success /\ req.results[1][2].latency_ms = 0
    /\ req.results[2][2].success /\ req.results[3][2].success
    /\ req.results[3][2].latency_ms < req.results[2][2].latency_ms
    /\ req.response.result[3] = req.results[1]

\* C2: while one region's test of the fan-out awaits the database, the test
\* of every other enabled region has been started (none waits behind it)
C2_NoRegionWaitsBehindAnother ==
    (req.kind = "test_all" /\ req.pc = "db") =>
        \A i \in DOMAIN req.enabled : req.enabled[i] \in TestedRegions

\* C3: from every reachable flag store and for every key holding a boolean,
\* two toggles of the key both succeed, the first changes the key's value,
\* and the second gives back the whole mapping
C3_ToggleTwiceRestores ==
    \A k \in DOMAIN demo_flags :
        IsBool(demo_flags[k]) =>
            LET once == toggle_demo_flag(demo_flags, k)
                twice == toggle_demo_flag(once.flags, k)
            IN  /\ once.ret /\ twice.ret
                /\ once.flags[k] /= demo_flags[k]
                /\ twice.flags[k] = demo_flags[k]
                /\ twice.flags = demo_flags

\* C3 witness: toggles have acted, and the store holds true and false flags
C3_Witness ==
    /\ demo_flags["region-eu-west-enabled"] = BoolVal(FALSE)
    /\ demo_flags["enable-load-testing"] = BoolVal(FALSE)
    /\ demo_flags["enable-health-checks"] = BoolVal(TRUE)

\* C4: a per-region test of a known region that reads the region's flag as
\* false is answered at once with the region-disabled fragment; it invokes
\* no simulator and no connection test, and acquires no connection
C4_DisabledRegionNotTested ==
    (/\ req.kind = "test"
     /\ req.rid \in RegionIds
     /\ req.seen[RegionFlag(req.rid)] = BoolVal(FALSE)) =>
        /\ req.pc = "done"
        /\ req.response = TemplateResponse("partials/region_disabled.html", None)
        /\ req.calls = {}
        /\ req.tasks = <<>>
        /\ held = [r \in RegionIds |-> 0]

C4_Witness ==
    /\ Answered("test")
    /\ req.rid = "eu-west"
    /\ req.seen[RegionFlag("eu-west")] = BoolVal(FALSE)
    /\ IsTemplate("partials/region_disabled.html")

\* the jitter band of the simulator in hundredths of a millisecond:
\* baseline - 10 to baseline + 20
C5_Band(region_id) ==
    CASE region_id = "us-east" -> <<1500, 4500>>
      [] region_id = "eu-west" -> <<11000, 14000>>
      [] region_id = "asia-pacific" -> <<17000, 20000>>
      [] OTHER -> <<9000, 12000>>

C5_Simulated(region_id, result) ==
    /\ <<"simulate_connection", region_id>> \in req.calls
    /\ result.tag = "ConnectionResult"
    /\ result.success
    /\ C5_Band(region_id)[1] <= result.latency_ms
    /\ result.latency_ms <= C5_Band(region_id)[2]

\* C5: test_connection is never invoked for a region without a connection
\* string; the result the per-region and the all-regions test give for such
\* a region comes from the simulator, with success and a latency in the band
C5_UnconfiguredUsesSimulator ==
    /\ \A c \in req.calls : c[1] = "test_connection" => c[2] \in dsn
    /\ (Answered("test") /\ IsTemplate("partials/connection_result.html")
            /\ req.rid \notin dsn) =>
          C5_Simulated(req.rid, req.response.result)
    /\ (Answered("test_all") /\ IsTemplate("partials/all_results.html")) =>
          \A i \in DOMAIN req.response.result :
              LET item == req.response.result[i]
              IN  item[1] \notin dsn => C5_Simulated(item[1], item[2])

\* C5 witness: with demo mode off, an all-regions test gave a simulated
\* result at the top of the band for a region without a connection string,
\* next to a real one
C5_Witness ==
    /\ ~DEMO_MODE
    /\ Answered("test_all") /\ IsTemplate("partials/all_results.html")
    /\ "asia-pacific" \notin dsn
    /\ <<"test_connection", "us-east">> \in req.calls
    /\ \E i \in DOMAIN req.results :
          /\ req.results[i][1] = "asia-pacific"
          /\ req.results[i][2].latency_ms = 20000

\* the single_query calls of the load test that returned a latency
C6_Succeeded == {i \in DOMAIN req.tasks : req.tasks[i].st = "ok"}

RECURSIVE C6_SumRaw(_)
C6_SumRaw(S) ==
    IF S = {} THEN 0
    ELSE LET i == CHOOSE x \in S : TRUE
         IN  req.tasks[i].raw + C6_SumRaw(S \ {i})

\* C6: run_load_test returns None exactly when no call succeeded; otherwise
\* its latency list has one sample per succeeded call, in call order (so at
\* most `concurrent`), and min, max and average are those of the succeeded
\* calls alone
C6_LoadTestOverSurvivors ==
    (Answered("load") /\ <<"run_load_test", req.rid>> \in req.calls) =>
        LET ok == C6_Succeeded
            raws == {req.tasks[i].raw : i \in ok}
        IN  /\ Len(req.tasks) \in {0, req.concurrent}
            /\ (ok = {}) <=> (req.ret = None)
            /\ ok /= {} =>
                  /\ req.ret.tag = "LoadTestResult"
                  /\ req.ret.concurrent = req.concurrent
                  /\ Len(req.ret.results) = Cardinality(ok)
                  /\ Len(req.ret.results) <= req.concurrent
                  /\ \A n \in DOMAIN req.ret.results :
                        \E i \in ok :
                            /\ Cardinality({j \in ok : j <= i}) = n
                            /\ req.ret.results[n] = Round2(req.tasks[i].raw)
                  /\ \E lo \in raws :
                        /\ \A x \in raws : lo <= x
                        /\ req.ret.min_ms = Round2(lo)
                  /\ \E hi \in raws :
                        /\ \A x \in raws : hi >= x
                        /\ req.ret.max_ms = Round2(hi)
                  /\ req.ret.avg_ms = RoundDiv(C6_SumRaw(ok), 10 * Cardinality(ok))

\* C6 witness: the first call failed and the second succeeded
C6_Witness ==
    /\ Answered("load") /\ req.concurrent = 2 /\ Len(req.tasks) = 2
    /\ req.tasks[1].st = "exc" /\ req.tasks[2].st = "ok"
    /\ Len(req.ret.results) = 1

\* C6 witness of the other case: every call failed and nothing is returned
C6_WitnessAllFailed ==
    /\ Answered("load") /\ req.concurrent = 2 /\ Len(req.tasks) = 2
    /\ \A i \in DOMAIN req.tasks : req.tasks[i].st = "exc"
    /\ req.ret = None

\* what C7 asks of one test_connection call: `result` is what it returned
\* for a region, `task` its acquire block when the region has a pool
C7_Returned(region_id, result, task) ==
    /\ result.tag = "ConnectionResult"
    /\ region_id \notin pools =>
          ~result.success /\ result.error = "No connection pool available"
    /\ region_id \in pools =>
          /\ task.st \in {"ok", "exc"}
          /\ task.st = "exc" => (~result.success /\ result.error = task.err)
          /\ result.success <=> (task.st = "ok" /\ task.q = 1 /\ task.fin = "ok")
          /\ result.success => result.latency_ms = Round2(task.raw)

\* C7: test_connection always returns a ConnectionResult to the endpoint:
\* success=false with the error text when the region has no pool or when
\* the acquire or the query raised, success=true only when the connection
\* was acquired and the query completed
C7_TestConnectionNeverRaises ==
    (Answered("test") /\ <<"test_connection", req.rid>> \in req.calls) =>
        /\ IsTemplate("partials/connection_result.html")
        /\ req.response.result = req.ret
        /\ C7_Returned(req.rid, req.ret,
                       IF req.tasks = <<>> THEN NewTask ELSE req.tasks[1])

\* C7 witness: the query raised after the connection was acquired
C7_Witness ==
    /\ Answered("test") /\ req.tasks /= <<>>
    /\ req.tasks[1].st = "exc" /\ req.tasks[1].fin = "exc"
    /\ req.tasks[1].err = "connection refused"
    /\ ~req.ret.success /\ req.ret.error = "connection refused"

\* the record get_health_metrics builds from the three rows
C8_Complete ==
    HealthMetrics(HealthRows[1][1], HealthRows[2][1], HealthRows[2][2],
                  Round2(HealthRows[3][1]))

\* C8: get_health_metrics returns the record built from all three rows when
\* the acquire and the three queries succeeded, and None in every other
\* case (no pool, a failed acquire, a failed query); None is answered with
\* the failure fragment
C8_HealthAllOrNothing ==
    (Answered("health") /\ <<"get_health_metrics", req.rid>> \in req.calls) =>
        /\ req.ret \in {None, C8_Complete}
        /\ req.rid \notin pools => req.ret = None
        /\ req.rid \in pools =>
              /\ Len(req.tasks) = 1
              /\ req.ret = C8_Complete <=>
                    (req.tasks[1].st = "ok" /\ req.tasks[1].q = 3)
              /\ req.tasks[1].q < 3 => req.ret = None
        /\ req.ret = None =>
              req.response = HtmlResponse("text-red-400", "Failed to fetch metrics")
        /\ req.ret /= None =>
              req.response = TemplateResponse("partials/health_metrics.html", req.ret)

\* C8 witness: the third query raised after two had returned their rows
C8_Witness ==
    /\ Answered("health") /\ Len(req.tasks) = 1
    /\ req.tasks[1].q = 2 /\ req.tasks[1].st = "exc"
    /\ req.ret = None

\* the fragments the endpoints answer a failure with
C9_Generic ==
    {HtmlResponse("text-red-400", "Failed to fetch metrics"),
     HtmlResponse("text-red-400", "Load test failed"),
     unknown_region}

C9_FeatureDisabled(kind) ==
    IF kind = "health" THEN HtmlResponse("text-amber-400", "Health checks disabled")
    ELSE HtmlResponse("text-amber-400", "Load testing disabled")

C9_RegionDisabled(kind) ==
    IF kind = "test" THEN TemplateResponse("partials/region_disabled.html", None)
    ELSE HtmlResponse("text-amber-400", "Region disabled")

C9_FeatureKey(kind) == IF kind = "health" THEN "enable-health-checks" ELSE "enable-load-testing"

\* a request for a known region that none of the flags it read rejects
C9_Passed ==
    /\ req.kind \in {"test", "health", "load"}
    /\ req.rid \in RegionIds
    /\ \A k \in DOMAIN req.seen : Truthy(req.seen[k])

\* C9 as stated: a request for an enabled region that has no connection
\* string is answered with a message of its own: an HTML fragment that is
\* neither the feature-disabled nor the region-disabled message nor a
\* generic failure fragment
C9_UnconfiguredHasOwnMessage ==
    (C9_Passed /\ req.pc = "done" /\ req.rid \notin dsn) =>
        /\ req.response.tag = "html"
        /\ req.response \notin C9_Generic
        /\ req.response /= C9_FeatureDisabled(req.kind)
        /\ req.response /= C9_RegionDisabled(req.kind)

\* C9 amended: a disabled feature (health, load test) and a disabled region
\* (test, health, load test) are each answered with their own message,
\* different from each other and from the generic failure fragments; a
\* region without a connection string gets no message: its request is
\* answered with the simulator's result
C9_DisabledMessagesDistinct ==
    /\ \A kind \in {"health", "load"} :
          /\ C9_FeatureDisabled(kind) /= C9_RegionDisabled(kind)
          /\ C9_FeatureDisabled(kind) \notin C9_Generic
    /\ \A kind \in {"test", "health", "load"} : C9_RegionDisabled(kind) \notin C9_Generic
    /\ (req.kind \in {"health", "load"} /\ req.rid \in RegionIds
            /\ ~Truthy(req.seen[C9_FeatureKey(req.kind)])) =>
          (req.pc = "done" /\ req.response = C9_FeatureDisabled(req.kind))
    /\ (req.kind \in {"test", "health", "load"} /\ req.rid \in RegionIds
            /\ ~Truthy(req.seen[RegionFlag(req.rid)])
            /\ (req.kind = "test" \/ Truthy(req.seen[C9_FeatureKey(req.kind)]))) =>
          (req.pc = "done" /\ req.response = C9_RegionDisabled(req.kind))
    /\ (C9_Passed /\ req.pc = "done" /\ req.rid \notin dsn) =>
          /\ req.response.tag = "template"
          /\ req.response.name \in {"partials/connection_result.html",
                                    "partials/health_metrics.html",
                                    "partials/load_test_result.html"}
          /\ req.response.result = req.ret
          /\ req.calls \in {{<<"simulate_connection", req.rid>>},
                            {<<"simulate_health", req.rid>>},
                            {<<"simulate_load_test", req.rid>>}}

\* C9 witness: a health request read the feature on and the region off
C9_Witness ==
    /\ Answered("health") /\ req.rid = "us-east"
    /\ req.seen["enable-health-checks"] = BoolVal(TRUE)
    /\ req.seen["region-us-east-enabled"] = BoolVal(FALSE)
    /\ req.response = HtmlResponse("text-amber-400", "Region disabled")

\* C9 witness of the simulator case: demo mode off, no connection string
C9_WitnessUnconfigured ==
    /\ ~DEMO_MODE /\ Answered("load") /\ req.rid = "eu-west" /\ "eu-west" \notin dsn
    /\ IsTemplate("partials/load_test_result.html")

\* the regions whose flag the all-regions test read as true
C10_EnabledWhenRead ==
    {r \in RegionIds : req.seen[RegionFlag(r)] = BoolVal(TRUE)}

\* C10: the all-regions test never tests a region whose flag it read as
\* false; once answered, it has tested every region it read as true and its
\* list holds exactly one entry for each of them; when it read none as true
\* it answers 'No regions enabled' and has invoked no test at all
C10_ExactlyEnabledRegions ==
    req.kind = "test_all" =>
        /\ TestedRegions \subseteq C10_EnabledWhenRead
        /\ {req.results[i][1] : i \in DOMAIN req.results} \subseteq TestedRegions
        /\ req.pc = "done" =>
              IF C10_EnabledWhenRead = {}
              THEN /\ req.response = HtmlResponse("text-amber-400", "No regions enabled")
                   /\ req.calls = {}
              ELSE /\ IsTemplate("partials/all_results.html")
                   /\ TestedRegions = C10_EnabledWhenRead
                   /\ Len(req.response.result) = Cardinality(C10_EnabledWhenRead)
                   /\ {req.response.result[i][1] : i \in DOMAIN req.response.result}
                         = C10_EnabledWhenRead

\* C10 witness: one region was read as disabled, the other two were tested
C10_Witness ==
    /\ Answered("test_all")
    /\ C10_EnabledWhenRead = {"us-east", "asia-pacific"}
    /\ Len(req.results) = 2

\* C10 witness of the other case: no region was read as enabled
C10_WitnessNone ==
    /\ Answered("test_all") /\ C10_EnabledWhenRead = {}
    /\ req.response = HtmlResponse("text-amber-400", "No regions enabled")

\* the calls that take the real path
C11_RealCalls == {"test_connection", "get_health_metrics", "run_load_test"}

\* C11: in demo mode no request takes the real path or acquires a pooled
\* connection, whatever connection strings and pools exist; a call on the
\* real path is made only with demo mode off and for a region that has a
\* connection string, and only such a request has tasks on a pool
C11_DemoModeNeverAcquires ==
    /\ \A c \in req.calls :
          c[1] \in C11_RealCalls => (~DEMO_MODE /\ c[2] \in dsn)
    /\ DEMO_MODE =>
          /\ req.tasks = <<>>
          /\ req.pc /= "db"
          /\ held = [r \in RegionIds |-> 0]
    /\ req.tasks /= <<>> =>
          (~DEMO_MODE /\ \E c \in req.calls : c[1] \in C11_RealCalls /\ c[2] \in dsn)
    /\ (req.pc = "done" /\ req.kind \in {"test", "health", "load"}
            /\ req.calls /= {} /\ ~DEMO_MODE /\ req.rid \in dsn) =>
          \E c \in req.calls : c[1] \in C11_RealCalls

\* C11 witness: in demo mode a test of a region that has a connection string
\* and an open pool was answered by the simulator
C11_Witness ==
    /\ DEMO_MODE /\ Answered("test")
    /\ req.rid = "us-east" /\ "us-east" \in dsn /\ "us-east" \in pools
    /\ req.calls = {<<"simulate_connection", "us-east">>}
    /\ req.ret.success

\* C11 witness of the real path: demo mode off and a connection string
C11_WitnessReal ==
    /\ ~DEMO_MODE /\ Answered("health") /\ req.rid \in dsn
    /\ req.calls = {<<"get_health_metrics", req.rid>>}

\* a health or load-test request the checks reject
C12_Rejected ==
    /\ req.kind \in {"health", "load"}
    /\ \/ req.rid \notin RegionIds
       \/ \E k \in DOMAIN req.seen : ~Truthy(req.seen[k])

\* C12: health and load test check the region's existence first, the
\* feature flag second, the region flag third: an unknown region is answered
\* 'Unknown region' whatever the feature flag says, a known region whose
\* feature is off gets the feature's message whatever the region flag says,
\* and only then a disabled region gets 'Region disabled'; a rejected request
\* is answered at once, with no sleep, simulator or database call
C12_ChecksInOrder ==
    req.kind \in {"health", "load"} =>
        /\ req.rid \notin RegionIds =>
              (req.pc = "done" /\ req.response = unknown_region)
        /\ (req.rid \in RegionIds /\ ~Truthy(req.seen[C9_FeatureKey(req.kind)])) =>
              (req.pc = "done" /\ req.response = C9_FeatureDisabled(req.kind))
        /\ (req.rid \in RegionIds /\ Truthy(req.seen[C9_FeatureKey(req.kind)])
                /\ ~Truthy(req.seen[RegionFlag(req.rid)])) =>
              (req.pc = "done"
                 /\ req.response = HtmlResponse("text-amber-400", "Region disabled"))
        /\ C12_Rejected =>
              /\ req.pc = "done"
              /\ req.calls = {} /\ req.tasks = <<>>
              /\ req.ret = None
              /\ held = [r \in RegionIds |-> 0]
        /\ ~C12_Rejected => req.pc /= "done" \/ req.calls /= {}

\* C12 witness: feature and region both read as off, the feature's message
C12_Witness ==
    /\ Answered("load") /\ req.rid = "eu-west"
    /\ req.seen["enable-load-testing"] = BoolVal(FALSE)
    /\ req.seen["region-eu-west-enabled"] = BoolVal(FALSE)
    /\ req.response = HtmlResponse("text-amber-400", "Load testing disabled")

\* C12 witness of the first check: an unknown region with the feature off
C12_WitnessUnknown ==
    /\ Answered("health") /\ req.rid = UnknownRegion
    /\ req.seen["enable-health-checks"] = BoolVal(FALSE)
    /\ req.response = unknown_region

\* the tasks of the request that hold a connection: acquired, not yet released
C13_Holding == {i \in DOMAIN req.tasks : req.tasks[i].st \in {"query", "release"}}

\* C13: the connections out of a pool are exactly those of the tasks that
\* are inside their `async with` block: a task that has ended, with a result
\* or with an exception, holds none, so no connection is out of any pool
\* once the request is answered; a load test holds at most `concurrent`
\* connections, every other operation at most one
C13_AcquiredIsReleased ==
    /\ \A r \in RegionIds :
          held[r] = IF req.pc = "db" /\ r = DbRegion(req)
                    THEN Cardinality(C13_Holding) ELSE 0
    /\ req.pc /= "db" => (C13_Holding = {} /\ held = [r \in RegionIds |-> 0])
    /\ \A r \in RegionIds :
          held[r] <= IF req.kind = "load" THEN req.concurrent ELSE 1
    /\ \A i \in DOMAIN req.tasks :
          req.tasks[i].fin /= "" =>
              req.tasks[i].st \in {"release", req.tasks[i].fin}

\* C13 witness: a load test is answered after one of its two queries raised
\* with its connection acquired; nothing is left out of the pool
C13_Witness ==
    /\ Answered("load") /\ Len(req.tasks) = 2
    /\ req.tasks[1].st = "exc" /\ req.tasks[1].fin = "exc"
    /\ req.tasks[2].st = "ok"
    /\ held = [r \in RegionIds |-> 0]

\* C13 witness of the upper limit: both calls of a load test hold a connection
C13_WitnessFull ==
    /\ req.kind = "load" /\ req.pc = "db" /\ req.concurrent = 2
    /\ held[req.rid] = 2

\* the keys toggle_demo_flag must refuse: one the store does not hold, and
\* the integer flag
C14_NotBoolean == {UnknownFlag, "dashboard-refresh-seconds"}

\* C14: the store always holds the six keys it started with, each with a
\* value of the type it started with, and is the initial store as long as
\* demo mode is off; toggle_demo_flag on an unknown key or on the integer
\* flag returns False and leaves the mapping as it is, on a boolean key it
\* returns True and changes that key alone; the toggle endpoint answers
\* 'Not in demo mode' and changes nothing when demo mode is off
C14_FlagStoreShape ==
    /\ DOMAIN demo_flags = FlagKeys
    /\ \A k \in FlagKeys : demo_flags[k].t = InitialDemoFlags[k].t
    /\ demo_flags["dashboard-refresh-seconds"] = IntVal(30)
    /\ ~DEMO_MODE => demo_flags = InitialDemoFlags
    /\ \A k \in C14_NotBoolean :
          toggle_demo_flag(demo_flags, k) = [flags |-> demo_flags, ret |-> FALSE]
    /\ Answered("toggle") =>
          LET old == req.seen
              k == req.rid
          IN  /\ ~DEMO_MODE =>
                    /\ demo_flags = old
                    /\ req.response = HtmlResponse("text-red-400", "Not in demo mode")
              /\ (DEMO_MODE /\ k \in C14_NotBoolean) =>
                    /\ req.ret = BoolVal(FALSE)
                    /\ demo_flags = old
              /\ (DEMO_MODE /\ k \notin C14_NotBoolean) =>
                    /\ req.ret = BoolVal(TRUE)
                    /\ demo_flags[k] = BoolVal(~old[k].v)
                    /\ \A j \in FlagKeys \ {k} : demo_flags[j] = old[j]
              /\ DEMO_MODE =>
                    req.response = TemplateResponse("partials/flag_panel.html", demo_flags)

\* C14 witness: a toggle of the integer flag was answered in demo mode, in a
\* store that earlier toggles have changed
C14_Witness ==
    /\ DEMO_MODE /\ Answered("toggle")
    /\ req.rid = "dashboard-refresh-seconds"
    /\ req.ret = BoolVal(FALSE)
    /\ demo_flags["enable-health-checks"] = BoolVal(FALSE)

\* C14 witness of the endpoint with demo mode off
C14_WitnessNotDemo ==
    /\ ~DEMO_MODE /\ Answered("toggle") /\ req.rid = "region-us-east-enabled"
    /\ demo_flags = InitialDemoFlags

\* C14 witness of a boolean key: switched off, the others untouched
C14_WitnessBoolean ==
    /\ DEMO_MODE /\ Answered("toggle") /\ req.rid = "region-eu-west-enabled"
    /\ req.seen = InitialDemoFlags
    /\ demo_flags = [InitialDemoFlags EXCEPT !["region-eu-west-enabled"] = BoolVal(FALSE)]

\* the regions of REGIONS, in order, whose flag the request read as true
C15_ReadEnabled ==
    SelectSeq(REGIONS, LAMBDA r : req.seen[RegionFlag(r)] = BoolVal(TRUE))

\* C15: what a test request tests is decided by the flags as it read them
\* before its sleep, not by the store as toggles leave it afterwards: the
\* all-regions test keeps the list it built from that reading through its
\* sleep and its loop and has tested exactly those regions when it answers;
\* the per-region test that read its region as enabled tests it, and the one
\* that read it as disabled tests nothing
C15_FlagsReadOnceBeforeDelay ==
    /\ req.kind = "test_all" =>
          /\ req.enabled = C15_ReadEnabled
          /\ req.pc = "sleep" => req.calls = {}
          /\ req.pc = "done" =>
                TestedRegions = {C15_ReadEnabled[i] : i \in DOMAIN C15_ReadEnabled}
    /\ (req.kind = "test" /\ req.rid \in RegionIds) =>
          /\ req.pc = "sleep" =>
                (req.calls = {} /\ req.seen[RegionFlag(req.rid)] = BoolVal(TRUE))
          /\ req.pc = "done" =>
                TestedRegions = IF req.seen[RegionFlag(req.rid)] = BoolVal(TRUE)
                                THEN {req.rid} ELSE {}

\* C15 witness: during the sleep of an all-regions test one region it read
\* as enabled was switched off and one it read as disabled was switched on;
\* the first was tested, the second was not
C15_Witness ==
    /\ Answered("test_all")
    /\ req.seen["region-us-east-enabled"] = BoolVal(TRUE)
    /\ demo_flags["region-us-east-enabled"] = BoolVal(FALSE)
    /\ req.seen["region-eu-west-enabled"] = BoolVal(FALSE)
    /\ demo_flags["region-eu-west-enabled"] = BoolVal(TRUE)
    /\ "us-east" \in TestedRegions /\ "eu-west" \notin TestedRegions

\* C15 witness of the per-region test: its region was switched off during
\* its sleep and was tested all the same
C15_WitnessRegion ==
    /\ Answered("test") /\ req.rid = "asia-pacific"
    /\ req.seen["region-asia-pacific-enabled"] = BoolVal(TRUE)
    /\ demo_flags["region-asia-pacific-enabled"] = BoolVal(FALSE)
    /\ TestedRegions = {"asia-pacific"}

====
